---- MODULE Spec2Model ----
(***************************************************************************)
(* Model of owfmodules/avrisp/device_id.py: the DeviceID module of the     *)
(* Octowire framework, which identifies an AVR microcontroller over SPI    *)
(* with a reset GPIO line.                                                 *)
(*                                                                         *)
(* Representation.  A Python bytes object is a sequence of integers in     *)
(* 0..255, a Python str is a sequence of one-character strings, and None   *)
(* is the empty sequence: SPI.receive(1) yields either None or exactly one *)
(* byte, and the device table holds records, so nothing else is empty.     *)
(* `ops' is the ordered trace of the GPIO and SPI operations issued during *)
(* the current run() and `log' the ordered trace of the logger.handle      *)
(* calls of the current run(); reset_status and reset_direction are the    *)
(* pin itself and survive from one run() to the next.                      *)
(***************************************************************************)
EXTENDS Integers, Sequences, FiniteSets, TLC

VARIABLES
    pc,                    \* position of run(): idle, device_id, process, ask0, ask1, ask2, finish, done
    runs,                  \* number of run() invocations started so far
    options,               \* self.options: spi_bus, reset_line, spi_baudrate
    avr_device,            \* the device table imported at line 14
    return_value,          \* argument of run()
    owf_serial,            \* self.owf_serial after connect()
    reset_status,          \* level of the reset pin (0 low, 1 high)
    reset_direction,       \* direction of the reset pin
    ops,                   \* GPIO / SPI operations of the current run, in order
    log,                   \* logger.handle calls of the current run, in order
    vendor_id,             \* process(): local vendor_id
    part_family_and_size,  \* process(): local part_family_and_size
    part_number,           \* process(): local part_number
    signature,             \* process(): local signature (None until line 99 runs)
    device_info,           \* run(): local device_info (None until line 135 returns)
    ret,                   \* value returned by run()
    propagated             \* TRUE iff run() let an exception escape

vars == <<pc, runs, options, avr_device, return_value, owf_serial, reset_status,
          reset_direction, ops, log, vendor_id, part_family_and_size, part_number,
          signature, device_info, ret, propagated>>

-----------------------------------------------------------------------------
(* Bounds and sampled inputs *)

MaxRuns == 2

\* Bytes the target may answer with: the bytes the classification tests
\* (00, 01, 02, FF) and the bytes of two AVR signatures (1E 95 0F, 1E 93 07).
ByteSample == {0, 1, 2, 7, 15, 30, 147, 149, 255}

BaudrateSample == {240000, 1000000}

None == <<>>

HexDigits == <<"0", "1", "2", "3", "4", "5", "6", "7",
               "8", "9", "a", "b", "c", "d", "e", "f">>

UpperDigits == <<"0", "1", "2", "3", "4", "5", "6", "7",
                 "8", "9", "A", "B", "C", "D", "E", "F">>

\* Entries the device table may hold (signature string -> metadata).
SampleDevices ==
    ( <<"1", "e", "9", "5", "0", "f">> :>
          [name |-> "ATmega328P", flash_size |-> "32768",
           flash_pagesize |-> "128", eeprom_size |-> "1024"] )
    @@
    ( <<"1", "e", "9", "3", "0", "7">> :>
          [name |-> "ATmega8", flash_size |-> "8192",
           flash_pagesize |-> "64", eeprom_size |-> "512"] )

-----------------------------------------------------------------------------
(* Pure helpers *)

\* codecs.encode(b, 'hex').decode(): two lowercase hex digits per byte.
RECURSIVE hexlify(_)
hexlify(b) ==
    IF b = <<>> THEN <<>>
    ELSE <<HexDigits[(Head(b) \div 16) + 1], HexDigits[(Head(b) % 16) + 1]>>
         \o hexlify(Tail(b))

\* str.upper() on a string of hex digits.
upper(s) ==
    [i \in 1..Len(s) |->
        LET d == CHOOSE k \in 1..16 : HexDigits[k] = s[i] \/ UpperDigits[k] = s[i]
        IN  UpperDigits[d]]

\* One logger.handle(msg, level) call; arg is the text substituted for {} by
\* str.format, as a sequence of strings (empty when the message has no argument).
LogEntry(text, arg, level) == [text |-> text, arg |-> arg, level |-> level]

-----------------------------------------------------------------------------
(* Log messages *)

LockBitsMsg ==
    LogEntry("Device Locked (Lock bits have been set). This prevents the memory from being read. To erase the Lock bits, it is necessary to perform a valid 'Chip Erase'.",
             <<>>, "ERROR")

LockedOrNotReadyMsg == LogEntry("The device is locked or not ready", <<>>, "ERROR")

ErasedMsg == LogEntry("Device Code Erased (or Target Missing)", <<>>, "ERROR")

NotFoundMsg == LogEntry("Device ID not found.", <<>>, "DEFAULT")

NoResponseMsg == LogEntry("Unable to get a response from the device", <<>>, "ERROR")

-----------------------------------------------------------------------------
(* DeviceID.check_signature: the result and the logger calls it makes *)

check_signature_ff_accepted(vendor, family, part) ==
    IF vendor = <<0>> /\ family = <<1>> /\ part = <<2>>
    THEN [result |-> FALSE, logged |-> <<LockBitsMsg>>]
    ELSE IF vendor \in {<<0>>}
    THEN [result |-> FALSE, logged |-> <<LockedOrNotReadyMsg>>]
    ELSE IF family = <<255>> /\ part = <<255>>
    THEN [result |-> FALSE, logged |-> <<ErasedMsg>>]
    ELSE [result |-> TRUE, logged |-> <<>>]

check_signature_generic_first(vendor, family, part) ==
    IF vendor \in {<<0>>, <<255>>}
    THEN [result |-> FALSE, logged |-> <<LockedOrNotReadyMsg>>]
    ELSE IF vendor = <<0>> /\ family = <<1>> /\ part = <<2>>
    THEN [result |-> FALSE, logged |-> <<LockBitsMsg>>]
    ELSE IF family = <<255>> /\ part = <<255>>
    THEN [result |-> FALSE, logged |-> <<ErasedMsg>>]
    ELSE [result |-> TRUE, logged |-> <<>>]

check_signature_no_erased(vendor, family, part) ==
    IF vendor = <<0>> /\ family = <<1>> /\ part = <<2>>
    THEN [result |-> FALSE, logged |-> <<LockBitsMsg>>]
    ELSE IF vendor \in {<<0>>, <<255>>}
    THEN [result |-> FALSE, logged |-> <<LockedOrNotReadyMsg>>]
    ELSE [result |-> TRUE, logged |-> <<>>]

check_signature(vendor, family, part) ==
    IF vendor = <<0>> /\ family = <<1>> /\ part = <<2>>
    THEN [result |-> FALSE, logged |-> <<LockBitsMsg>>]
    ELSE IF vendor \in {<<0>>, <<255>>}
    THEN [result |-> FALSE, logged |-> <<LockedOrNotReadyMsg>>]
    ELSE IF family = <<255>> /\ part = <<255>>
    THEN [result |-> FALSE, logged |-> <<ErasedMsg>>]
    ELSE [result |-> TRUE, logged |-> <<>>]

-----------------------------------------------------------------------------
(* DeviceID.get_device_info: the value returned and the logger calls made *)

get_device_info(table, sig) ==
    IF \E device_signature \in DOMAIN table : device_signature = sig
    THEN [value  |-> table[sig],
          logged |-> <<LogEntry("Device name: {}", <<table[sig].name>>, "RESULT"),
                       LogEntry("Device flash size: {}", <<table[sig].flash_size>>, "RESULT"),
                       LogEntry("Device flash page size: {}", <<table[sig].flash_pagesize>>, "RESULT"),
                       LogEntry("Device EEPROM size: {}", <<table[sig].eeprom_size>>, "RESULT")>>]
    ELSE [value |-> None, logged |-> <<NotFoundMsg>>]

-----------------------------------------------------------------------------
(* DeviceID.manage_resp: whether it raises, and the logger call it makes *)

manage_resp_never_raises(msg, resp) ==
    [raised |-> FALSE,
     logged |-> <<LogEntry(msg, upper(hexlify(resp)), "SUCCESS")>>]

manage_resp(msg, resp) ==
    IF resp # None
    THEN [raised |-> FALSE,
          logged |-> <<LogEntry(msg, upper(hexlify(resp)), "SUCCESS")>>]
    ELSE [raised |-> TRUE, logged |-> <<>>]

-----------------------------------------------------------------------------
(* Commands and hardware operations *)

read_device_id_base_cmd_short == <<48>>

read_device_id_base_cmd == <<48, 0>>

enable_mem_access_cmd == <<172, 83, 0, 0>>

\* One operation on the hardware: arg is its numeric argument (a level, a
\* baudrate, the bytes sent, the number of bytes asked for), mode its symbolic one.
GpioDirection(d) == [op |-> "gpio.direction", arg |-> <<>>, mode |-> d]

GpioStatus(v) == [op |-> "gpio.status", arg |-> <<v>>, mode |-> ""]

SpiConfigure(b) == [op |-> "spi.configure", arg |-> <<b>>, mode |-> ""]

SpiTransmit(d) == [op |-> "spi.transmit", arg |-> d, mode |-> ""]

SpiReceive(n) == [op |-> "spi.receive", arg |-> <<n>>, mode |-> ""]

\* device_id(), lines 112-118: the operations issued before process() is called.
device_id_ops_configure_first(opts) ==
    <<SpiConfigure(opts.spi_baudrate), GpioDirection("OUTPUT"), GpioStatus(0)>>

device_id_ops(opts) ==
    <<GpioDirection("OUTPUT"), GpioStatus(1), SpiConfigure(opts.spi_baudrate)>>

\* process(), lines 75-77: drive reset low, then enable memory access.
enable_ops_transmit_first == <<SpiTransmit(enable_mem_access_cmd), GpioStatus(0)>>

enable_ops == <<GpioStatus(0), SpiTransmit(enable_mem_access_cmd)>>

\* process(), lines 80-81 / 85-86 / 90-91: one request and the read after it.
ask_ops(index) == <<SpiTransmit(read_device_id_base_cmd \o <<index>>), SpiReceive(1)>>

\* process(), line 99: the key looked up in the device table.
signature_of_reversed(vendor, family, part) == hexlify(part \o family \o vendor)

signature_of(vendor, family, part) == hexlify(vendor \o family \o part)

\* run(), lines 136-138: what run() returns once device_id() has returned.
run_result_always(rv, info) == info

run_result(rv, info) == IF rv THEN info ELSE None

\* The level of the reset pin after the operations in s, starting from level v.
RECURSIVE LevelAfter(_, _)
LevelAfter(v, s) ==
    IF s = <<>> THEN v
    ELSE LevelAfter(IF Head(s).op = "gpio.status" THEN Head(s).arg[1] ELSE v, Tail(s))

\* The direction of the reset pin after the operations in s, starting from d.
RECURSIVE DirectionAfter(_, _)
DirectionAfter(d, s) ==
    IF s = <<>> THEN d
    ELSE DirectionAfter(IF Head(s).op = "gpio.direction" THEN Head(s).mode ELSE d, Tail(s))

-----------------------------------------------------------------------------
(* State machine *)

Init ==
    /\ pc = "idle"
    /\ runs = 0
    /\ options \in [spi_bus : {0}, reset_line : {0}, spi_baudrate : BaudrateSample]
    /\ avr_device \in {[k \in S |-> SampleDevices[k]] : S \in SUBSET DOMAIN SampleDevices}
    /\ return_value = FALSE
    /\ owf_serial = FALSE
    /\ reset_status \in {0, 1}
    /\ reset_direction \in {"INPUT", "OUTPUT"}
    /\ ops = <<>>
    /\ log = <<>>
    /\ vendor_id = None
    /\ part_family_and_size = None
    /\ part_number = None
    /\ signature = None
    /\ device_info = None
    /\ ret = None
    /\ propagated = FALSE

\* The hardware operations in s are issued, in order.
Issue(s) ==
    /\ ops' = ops \o s
    /\ reset_status' = LevelAfter(reset_status, s)
    /\ reset_direction' = DirectionAfter(reset_direction, s)

\* run(), lines 131-133: a new invocation; connect() finds the hardware or not.
run ==
    /\ pc \in {"idle", "done"}
    /\ runs < MaxRuns
    /\ runs' = runs + 1
    /\ \E rv \in BOOLEAN : return_value' = rv
    /\ \E found \in BOOLEAN :
          /\ owf_serial' = found
          /\ pc' = IF found THEN "device_id" ELSE "done"
    /\ ops' = <<>>
    /\ log' = <<>>
    /\ vendor_id' = None
    /\ part_family_and_size' = None
    /\ part_number' = None
    /\ signature' = None
    /\ device_info' = None
    /\ ret' = None
    /\ propagated' = FALSE
    /\ UNCHANGED <<options, avr_device, reset_status, reset_direction>>

\* device_id(), lines 104-120: up to the call of process().
device_id ==
    /\ pc = "device_id"
    /\ Issue(device_id_ops(options))
    /\ log' = Append(log, LogEntry("Reading device ID...", <<>>, "INFO"))
    /\ pc' = "process"
    /\ UNCHANGED <<runs, options, avr_device, return_value, owf_serial, vendor_id,
                   part_family_and_size, part_number, signature, device_info, ret,
                   propagated>>

\* process(), lines 70-77: reset low and the enable-programming command.
process_enable ==
    /\ pc = "process"
    /\ log' = Append(log, LogEntry("Enabling Memory Access...", <<>>, "INFO"))
    /\ Issue(enable_ops)
    /\ pc' = "ask0"
    /\ UNCHANGED <<runs, options, avr_device, return_value, owf_serial, vendor_id,
                   part_family_and_size, part_number, signature, device_info, ret,
                   propagated>>

\* The call of manage_resp at lines 82, 87 and 92 and what follows it: when it
\* raises, the exception leaves process() and device_id(), run() catches and
\* logs it (lines 139-140), falls off its end and returns None; otherwise
\* process() goes on at `next'.
after_manage_resp(outcome, next) ==
    IF outcome.raised
    THEN /\ log' = Append(log, NoResponseMsg)
         /\ pc' = "done"
         /\ ret' = None
         /\ propagated' = FALSE
    ELSE /\ log' = log \o outcome.logged
         /\ pc' = next
         /\ UNCHANGED <<ret, propagated>>

\* process(), lines 80-82: the vendor ID.
ask_vendor ==
    /\ pc = "ask0"
    /\ Issue(ask_ops(0))
    /\ \E resp \in {None} \cup {<<b>> : b \in ByteSample} :
          /\ vendor_id' = resp
          /\ after_manage_resp(manage_resp("Vendor ID", resp), "ask1")
    /\ UNCHANGED <<runs, options, avr_device, return_value, owf_serial,
                   part_family_and_size, part_number, signature, device_info>>

\* process(), lines 85-87: the part family and flash size.
ask_family ==
    /\ pc = "ask1"
    /\ Issue(ask_ops(1))
    /\ \E resp \in {None} \cup {<<b>> : b \in ByteSample} :
          /\ part_family_and_size' = resp
          /\ after_manage_resp(manage_resp("Part Family and Flash Size", resp), "ask2")
    /\ UNCHANGED <<runs, options, avr_device, return_value, owf_serial,
                   vendor_id, part_number, signature, device_info>>

\* process(), lines 90-92: the part number.
ask_part ==
    /\ pc = "ask2"
    /\ Issue(ask_ops(2))
    /\ \E resp \in {None} \cup {<<b>> : b \in ByteSample} :
          /\ part_number' = resp
          /\ after_manage_resp(manage_resp("Part number", resp), "finish")
    /\ UNCHANGED <<runs, options, avr_device, return_value, owf_serial,
                   vendor_id, part_family_and_size, signature, device_info>>
\* process(), lines 94-102, and run(), lines 135-138: reset high, the
\* classification, the table lookup and the value run() returns.
process_finish ==
    /\ pc = "finish"
    /\ Issue(<<GpioStatus(1)>>)
    /\ LET checked == check_signature(vendor_id, part_family_and_size, part_number)
           sig     == signature_of(vendor_id, part_family_and_size, part_number)
           found   == get_device_info(avr_device, sig)
       IN  IF checked.result
           THEN /\ signature' = sig
                /\ log' = log \o checked.logged \o found.logged
                /\ device_info' = found.value
                /\ ret' = run_result(return_value, found.value)
           ELSE /\ signature' = None
                /\ log' = log \o checked.logged
                /\ device_info' = None
                /\ ret' = run_result(return_value, None)
    /\ pc' = "done"
    /\ propagated' = FALSE
    /\ UNCHANGED <<runs, options, avr_device, return_value, owf_serial, vendor_id,
                   part_family_and_size, part_number>>

Next ==
    \/ run
    \/ device_id
    \/ process_enable
    \/ ask_vendor
    \/ ask_family
    \/ ask_part
    \/ process_finish

Spec == Init /\ [][Next]_vars

-----------------------------------------------------------------------------
(* Vocabulary of the properties *)

AllAnswered ==
    vendor_id # None /\ part_family_and_size # None /\ part_number # None

Finished == pc = "done" /\ owf_serial /\ AllAnswered

ErrorsLogged == SelectSeq(log, LAMBDA e : e.level = "ERROR")

Logged(e) == \E i \in 1..Len(log) : log[i] = e

Transmits == SelectSeq(ops, LAMBDA o : o.op = "spi.transmit")

Receives == SelectSeq(ops, LAMBDA o : o.op = "spi.receive")

StatusWrites == SelectSeq(ops, LAMBDA o : o.op = "gpio.status")

IsSpiTransfer(o) == o.op \in {"spi.transmit", "spi.receive"}

\* The operations issued from the first write of 0 to the reset pin onwards.
RECURSIVE FromResetLow(_)
FromResetLow(s) ==
    IF s = <<>> THEN <<>>
    ELSE IF Head(s) = GpioStatus(0) THEN s
    ELSE FromResetLow(Tail(s))

\* Bytes sent plus bytes asked for in the operations s.
RECURSIVE BytesExchanged(_)
BytesExchanged(s) ==
    IF s = <<>> THEN 0
    ELSE (IF Head(s).op = "spi.transmit" THEN Len(Head(s).arg)
          ELSE IF Head(s).op = "spi.receive" THEN Head(s).arg[1]
          ELSE 0) + BytesExchanged(Tail(s))

HexVal(c) == (CHOOSE k \in 1..16 : HexDigits[k] = c) - 1

IsLowerHex(c) == \E k \in 1..16 : HexDigits[k] = c

VendorLocked == vendor_id \in {<<0>>, <<255>>}

CodeErased == part_family_and_size = <<255>> /\ part_number = <<255>>

LockBitsSignature ==
    vendor_id = <<0>> /\ part_family_and_size = <<1>> /\ part_number = <<2>>

-----------------------------------------------------------------------------
(* Properties *)

\* C1: when all three receives return a byte, process() issues exactly: reset
\* low, transmit AC 53 00 00, then for index 0, 1, 2 a transmit of the read
\* request for that index followed by one receive of 1 byte, then reset high;
\* and no SPI transfer is ever issued unless the last write to the reset pin
\* was a write of 0.
C1_ExchangeOrder ==
    /\ Finished =>
          FromResetLow(ops) =
             <<GpioStatus(0), SpiTransmit(<<172, 83, 0, 0>>),
               SpiTransmit(<<48, 0, 0>>), SpiReceive(1),
               SpiTransmit(<<48, 0, 1>>), SpiReceive(1),
               SpiTransmit(<<48, 0, 2>>), SpiReceive(1),
               GpioStatus(1)>>
    /\ \A i \in 1..Len(ops) :
          IsSpiTransfer(ops[i]) =>
             \E j \in 1..(i - 1) :
                /\ ops[j] = GpioStatus(0)
                /\ \A k \in (j + 1)..(i - 1) : ops[k].op # "gpio.status"

C1_Witness ==
    /\ Finished
    /\ Len(Receives) = 3
    /\ ops[Len(ops)] = GpioStatus(1)

\* C2 as stated: the enable command is 4 bytes, each read request is 2 bytes,
\* and the whole exchange is eleven bytes.
C2_ElevenBytes ==
    Finished =>
       /\ Len(Transmits) = 4
       /\ Len(Transmits[1].arg) = 4
       /\ \A i \in 2..4 : Len(Transmits[i].arg) = 2
       /\ BytesExchanged(ops) = 11

\* C2 amended: the enable command is 4 bytes, each read request is 3 bytes
\* (30 00 and the index), each read is 1 byte, and the whole exchange is
\* sixteen bytes.
C2_SixteenBytes ==
    Finished =>
       /\ Len(Transmits) = 4
       /\ Len(Transmits[1].arg) = 4
       /\ \A i \in 2..4 : Len(Transmits[i].arg) = 3
       /\ Len(Receives) = 3
       /\ \A i \in 1..3 : Receives[i].arg = <<1>>
       /\ BytesExchanged(ops) = 16

C2_Witness ==
    /\ Finished
    /\ Len(Transmits) = 4
    /\ BytesExchanged(ops) > 0

\* C3: a signature whose vendor byte is 00 or FF is rejected whatever the other
\* two bytes: one lock error is logged, the generic one unless the signature is
\* exactly 00 01 02, no table lookup is made and nothing is returned.
C3_VendorRejected ==
    (Finished /\ VendorLocked) =>
       /\ ErrorsLogged =
             IF LockBitsSignature THEN <<LockBitsMsg>> ELSE <<LockedOrNotReadyMsg>>
       /\ signature = None
       /\ device_info = None
       /\ ret = None
       /\ ~Logged(NotFoundMsg)
       /\ \A i \in 1..Len(log) : log[i].level # "RESULT"

C3_Witness ==
    /\ Finished
    /\ vendor_id = <<255>>
    /\ part_family_and_size = <<30>>
    /\ return_value

\* C4: the signature 00 01 02 is the lock-bit condition: exactly one error is
\* logged, the 'Device Locked (Lock bits have been set)' one and not the
\* generic one, and the signature is rejected.
C4_LockBits ==
    (Finished /\ LockBitsSignature) =>
       /\ Len(ErrorsLogged) = 1
       /\ Logged(LockBitsMsg)
       /\ ~Logged(LockedOrNotReadyMsg)
       /\ signature = None
       /\ device_info = None

C4_Witness ==
    /\ Finished
    /\ LockBitsSignature
    /\ Logged(LockBitsMsg)

\* C5 as stated: family and part both FF is classified as erased / target
\* missing for every vendor byte.
C5_ErasedAnyVendor ==
    (Finished /\ CodeErased) =>
       /\ ErrorsLogged = <<ErasedMsg>>
       /\ signature = None

\* C5 amended: family and part both FF is rejected for every vendor byte; the
\* 'Device Code Erased (or Target Missing)' error is the one logged when the
\* vendor byte is neither 00 nor FF, and the generic 'locked or not ready'
\* error is logged instead when it is 00 or FF.
C5_ErasedUnlessVendorLocked ==
    (Finished /\ CodeErased) =>
       /\ signature = None
       /\ device_info = None
       /\ ErrorsLogged =
             IF VendorLocked THEN <<LockedOrNotReadyMsg>> ELSE <<ErasedMsg>>

C5_Witness ==
    /\ Finished
    /\ CodeErased
    /\ vendor_id = <<30>>
    /\ Logged(ErasedMsg)

\* C6: a signature that no rejection rule matches is looked up as the 6
\* lowercase hex digits of vendor, family, part in that order: process() returns
\* the table's entry for that key when there is one, and None after logging
\* 'Device ID not found.' when there is none; the table never changes.
C6_LookupState ==
    (Finished /\ ~VendorLocked /\ ~CodeErased) =>
       /\ Len(signature) = 6
       /\ \A i \in 1..6 : IsLowerHex(signature[i])
       /\ <<16 * HexVal(signature[1]) + HexVal(signature[2])>> = vendor_id
       /\ <<16 * HexVal(signature[3]) + HexVal(signature[4])>> = part_family_and_size
       /\ <<16 * HexVal(signature[5]) + HexVal(signature[6])>> = part_number
       /\ IF signature \in DOMAIN avr_device
          THEN /\ device_info = avr_device[signature]
               /\ ~Logged(NotFoundMsg)
          ELSE /\ device_info = None
               /\ log[Len(log)] = NotFoundMsg
       /\ ErrorsLogged = <<>>

C6_TableLookup ==
    /\ []C6_LookupState
    /\ [][avr_device' = avr_device]_vars

C6_Witness ==
    /\ Finished
    /\ signature = <<"1", "e", "9", "5", "0", "f">>
    /\ device_info # None
    /\ device_info.name = "ATmega328P"

C9_ResetReleased ==
    (pc = "done" /\ \E i \in 1..Len(ops) : ops[i] = GpioStatus(0)) =>
       /\ reset_status = 1
       /\ ops[Len(ops)] = GpioStatus(1)

\* C10: device_id() sets the reset pin to output and drives it high before it
\* configures the SPI interface and before process() drives it low, so a
\* complete run writes high, low, high to the pin; and the SPI interface is
\* configured with the requested baudrate before the first transmit.
C10_SetupOrder ==
    /\ Finished => [i \in 1..Len(StatusWrites) |-> StatusWrites[i].arg[1]] = <<1, 0, 1>>
    /\ \A i \in 1..Len(ops) :
          (ops[i] = GpioStatus(0) \/ ops[i].op = "spi.configure") =>
             \E j \in 1..(i - 1) : \E k \in (j + 1)..(i - 1) :
                /\ ops[j] = GpioDirection("OUTPUT")
                /\ ops[k] = GpioStatus(1)
    /\ \A i \in 1..Len(ops) :
          ops[i].op = "spi.transmit" =>
             \E j \in 1..(i - 1) : ops[j] = SpiConfigure(options.spi_baudrate)
    /\ \A i \in 1..Len(ops) :
          ops[i].op = "spi.configure" => ops[i].arg = <<options.spi_baudrate>>
    /\ pc \in {"process", "ask0", "ask1", "ask2", "finish"} => reset_direction = "OUTPUT"

C10_Witness ==
    /\ Finished
    /\ Len(StatusWrites) = 3
    /\ ops[3] = SpiConfigure(240000)
    /\ reset_status = 1

====
